---- MODULE Spec2Model ----
(***************************************************************************)
(* MacroCam: the meal ledger of the Home screen (index.tsx), the Week      *)
(* screen's copy of it (part_001) and the device store they share.         *)
(*                                                                         *)
(* Text is a sequence of one-character strings, so that parseInt, trim and *)
(* toString(36) are computed character by character as JavaScript does.    *)
(* A calendar day key (toISOString().slice(0, 10)) is the number of the    *)
(* UTC day; an instant is a number of clock ticks, DayLen ticks to a day.  *)
(***************************************************************************)
EXTENDS Integers, Sequences, FiniteSets, TLC

\* ------------------------------------------------------------------ bounds
MaxNow == 2          \* the clock stops at this tick
DayLen == 2          \* ticks in one UTC day
RandSteps == 1       \* distinct fractions a double keeps of Math.random()
MaxOps == 2          \* accepted saveMeal and deleteMeal calls in one session
MaxTextLen == 2      \* characters typed into a number field
MaxOffset == 1       \* a zone is at most this many ticks off UTC
MaxRequests == 2     \* POST /estimate requests the backend receives


\* ------------------------------------------------------------- JavaScript
Undefined == "undefined"

Null == "null"

Digits == <<"0", "1", "2", "3", "4", "5", "6", "7", "8", "9">>

Base36 == Digits \o <<"a", "b", "c", "d", "e", "f", "g", "h", "i", "j", "k",
                      "l", "m", "n", "o", "p", "q", "r", "s", "t", "u", "v",
                      "w", "x", "y", "z">>

IsDigit(c) == \E i \in 1..Len(Digits) : Digits[i] = c

DigitValue(c) == (CHOOSE i \in 1..Len(Digits) : Digits[i] = c) - 1

IsWhiteSpace(c) == c = " "

RECURSIVE trimStart(_)
trimStart(s) ==
    IF s # <<>> /\ IsWhiteSpace(Head(s)) THEN trimStart(Tail(s)) ELSE s

RECURSIVE trimEnd(_)
trimEnd(s) ==
    IF s # <<>> /\ IsWhiteSpace(s[Len(s)])
    THEN trimEnd(SubSeq(s, 1, Len(s) - 1))
    ELSE s

\* String.prototype.trim
trim(s) == trimEnd(trimStart(s))

\* the longest prefix of s made of decimal digits
RECURSIVE DigitPrefix(_)
DigitPrefix(s) ==
    IF s # <<>> /\ IsDigit(Head(s))
    THEN <<Head(s)>> \o DigitPrefix(Tail(s))
    ELSE <<>>

RECURSIVE DigitsToInt(_, _)
DigitsToInt(s, acc) ==
    IF s = <<>> THEN acc
    ELSE DigitsToInt(Tail(s), acc * 10 + DigitValue(Head(s)))

\* a JavaScript number that is an integer, or NaN
NaN == [isNaN |-> TRUE, n |-> 0]

Num(k) == [isNaN |-> FALSE, n |-> k]

NumberIsNaN(x) == x.isNaN

\* parseInt(str, 10): leading white space is skipped, a sign is read, then
\* the longest run of digits; what follows the digits is ignored, and NaN
\* is returned only when there is no digit at all.
parseInt(str) ==
    LET s == trimStart(str)
        signed == s # <<>> /\ Head(s) \in {"+", "-"}
        neg == s # <<>> /\ Head(s) = "-"
        z == DigitPrefix(IF signed THEN Tail(s) ELSE s)
    IN  IF z = <<>> THEN NaN
        ELSE Num((IF neg THEN -1 ELSE 1) * DigitsToInt(z, 0))

\* x, with the || y forgotten
OrElseForgotten(x, y) == x

\* x || y on strings: the empty string is falsy
OrElse(x, y) == IF x = <<>> THEN y ELSE x

\* Number.prototype.toString(36) of k >= 0, the integer part
RECURSIVE IntToString36(_)
IntToString36(k) ==
    IF k < 36 THEN <<Base36[k + 1]>>
    ELSE IntToString36(k \div 36) \o <<Base36[(k % 36) + 1]>>

\* the digits of the fraction f / den in base 36, at most fuel of them
RECURSIVE FracToString36(_, _, _)
FracToString36(f, den, fuel) ==
    IF f = 0 \/ fuel = 0 THEN <<>>
    ELSE <<Base36[((f * 36) \div den) + 1]>>
         \o FracToString36((f * 36) % den, den, fuel - 1)

\* ------------------------------------------------------ JavaScript values
\* A value a JSON text can hold under a key, or undefined (no such key):
\* its type, and the number n / 10^e or the text s.  Infinity is what
\* JSON.parse makes of a number literal too large for a double.
undefinedValue == [t |-> "undefined", n |-> 0, e |-> 0, s |-> <<>>]

nullValue == [t |-> "null", n |-> 0, e |-> 0, s |-> <<>>]

booleanValue(b) ==
    [t |-> "boolean", n |-> IF b THEN 1 ELSE 0, e |-> 0, s |-> <<>>]

numberValue(n, e) == [t |-> "number", n |-> n, e |-> e, s |-> <<>>]

integerValue(k) == numberValue(k, 0)

infinityValue == [t |-> "Infinity", n |-> 0, e |-> 0, s |-> <<>>]

nanValue == [t |-> "NaN", n |-> 0, e |-> 0, s |-> <<>>]

stringValue(s) == [t |-> "string", n |-> 0, e |-> 0, s |-> s]

IsNumber(v) == v.t \in {"number", "Infinity", "NaN"}

IsInteger(v) == v.t = "number" /\ v.e = 0

RECURSIVE Pow10(_)
Pow10(e) == IF e = 0 THEN 1 ELSE 10 * Pow10(e - 1)

InfinityText == <<"I", "n", "f", "i", "n", "i", "t", "y">>

\* StringToNumber of ECMAScript on a text without exponent part: white
\* space around is dropped, the empty text is 0, then an optional sign and
\* Infinity or digits with at most one point; anything else is NaN
StringToNumber(str) ==
    LET s == trim(str)
        signed == s # <<>> /\ Head(s) \in {"+", "-"}
        sign == IF s # <<>> /\ Head(s) = "-" THEN -1 ELSE 1
        body == IF signed THEN Tail(s) ELSE s
        int == DigitPrefix(body)
        afterInt == SubSeq(body, Len(int) + 1, Len(body))
        pointed == afterInt # <<>> /\ Head(afterInt) = "."
        frac == IF pointed THEN DigitPrefix(Tail(afterInt)) ELSE <<>>
        used == Len(int) + (IF pointed THEN 1 + Len(frac) ELSE 0)
    IN  IF s = <<>> THEN integerValue(0)
        ELSE IF body = InfinityText THEN infinityValue
        ELSE IF used = Len(body) /\ Len(int) + Len(frac) > 0
        THEN numberValue(sign * DigitsToInt(int \o frac, 0), Len(frac))
        ELSE nanValue

\* Number(v)
Number(v) ==
    CASE v.t = "undefined" -> nanValue
      [] v.t = "null" -> integerValue(0)
      [] v.t = "boolean" -> integerValue(v.n)
      [] v.t = "string" -> StringToNumber(v.s)
      [] OTHER -> v

\* a value that counts as false in v || d
Falsy(v) ==
    \/ v.t \in {"undefined", "null", "NaN"}
    \/ v.t = "boolean" /\ v.n = 0
    \/ v.t = "number" /\ v.n = 0
    \/ v.t = "string" /\ v.s = <<>>

\* v, with the || d forgotten
ValueOrForgotten(v, d) == v

\* v || d
ValueOr(v, d) == IF Falsy(v) THEN d ELSE v

\* Math.round(x) of a number: the integer nearest to x, halves upwards
MathRound(x) ==
    IF x.t = "number"
    THEN integerValue((2 * x.n + Pow10(x.e)) \div (2 * Pow10(x.e)))
    ELSE x

\* the decimal digits of k >= 0
RECURSIVE NatToString(_)
NatToString(k) ==
    IF k < 10 THEN <<Digits[k + 1]>>
    ELSE NatToString(k \div 10) \o <<Digits[(k % 10) + 1]>>

\* String(v) of a string, a boolean, or a number that is an integer,
\* Infinity or NaN
String(v) ==
    CASE v.t = "string" -> v.s
      [] v.t = "Infinity" -> InfinityText
      [] v.t = "NaN" -> <<"N", "a", "N">>
      [] v.t = "boolean" ->
            IF v.n = 1 THEN <<"t", "r", "u", "e">>
            ELSE <<"f", "a", "l", "s", "e">>
      [] v.t = "number" ->
            IF v.n < 0 THEN <<"-">> \o NatToString(-v.n) ELSE NatToString(v.n)

FoodText == <<"F", "o", "o", "d">>

\* Math.round(Number(v) || 0)
RoundedOrZero(v) == MathRound(ValueOr(Number(v), integerValue(0)))

\* ---------------------------------------------------------------- the Meal
\* Date.now() + Math.random(): the double nearest to the sum, in units of
\* 1 / RandSteps. r = RandSteps is a fraction so close to 1 that the sum
\* rounds up to the next whole millisecond.
IdNumber(t, r) == t * RandSteps + r

\* (Date.now() + Math.random()).toString(36)
MealId(t, r) ==
    LET q == IdNumber(t, r)
        frac == FracToString36(q % RandSteps, RandSteps, 4)
    IN  IntToString36(q \div RandSteps)
        \o (IF frac = <<>> THEN <<>> ELSE <<".">> \o frac)

MealText == <<"M", "e", "a", "l">>

\* the object literal of saveMeal
MakeMeal(id, ts, d, calories, protein_g, uri) ==
    [id |-> id, ts |-> ts, description |-> OrElse(trim(d), MealText),
     calories |-> calories, protein_g |-> protein_g, photoUri |-> uri]

\* toISOString().slice(0, 10) of an instant: its UTC calendar day
dateKey(ts) == ts \div DayLen

WeekLen == 7

\* A time zone: its offset from UTC before and after one clock change, and
\* the instant of the change (a zone without daylight saving has two equal
\* offsets).  A clock change moves the local clock by one tick, forward or
\* back, at some instant of the week that lastNDays looks back on.
UTCZone == [before |-> 0, after |-> 0, at |-> 0]

Zones ==
    {[before |-> b, after |-> b, at |-> 0] : b \in -MaxOffset..MaxOffset}
    \cup {z \in [before : -MaxOffset..MaxOffset, after : -MaxOffset..MaxOffset,
                  at : (1 - WeekLen) * DayLen..MaxNow] :
              z.after - z.before \in {-1, 1}}

\* the offset of zone z in force at instant t
Offset(z, t) == IF t < z.at THEN z.before ELSE z.after

\* LocalTime(t) of ECMAScript: the wall clock of zone z at instant t
LocalTime(z, t) == t + Offset(z, t)

\* UTC(t) of ECMAScript: the instant at which the wall clock of zone z shows
\* l.  A wall-clock time that occurs twice (clock set back) is the earlier
\* instant; one that never occurs (clock set forward) is read with the
\* offset in force before the change.
UTC(z, l) ==
    LET early == l - z.before
        late == l - z.after
    IN  IF early < z.at THEN early
        ELSE IF late >= z.at THEN late
        ELSE early

\* x.setDate(d.getDate() - i): the same wall-clock time i calendar days
\* earlier, as an instant
setDate(z, t, i) == UTC(z, LocalTime(z, t) - i * DayLen)

\* lastNDays(n) called at instant t on a device in zone z: getDate and
\* setDate work on the wall clock, toISOString().slice(0, 10) on UTC
lastNDays(n, t, z) == [i \in 1..n |-> dateKey(setDate(z, t, i - 1))]


\* ------------------------------------------------------------------- JSON
\* What the store holds under STORAGE_KEY: nothing (getItem gives null), a
\* text that is no JSON, or the JSON text of an array, kept as the sequence
\* of its objects, each the sequence of its <<key, value>> pairs.
NullRaw == [kind |-> "null", body |-> <<>>]

GarbageRaw == [kind |-> "garbage", body |-> <<>>]

\* JSON.stringify of one Meal: a key whose value is undefined is left out
StringifyMeal(m) ==
    << <<"id", m.id>>, <<"ts", m.ts>>, <<"description", m.description>>,
       <<"calories", m.calories>>, <<"protein_g", m.protein_g>> >>
    \o (IF m.photoUri = Undefined THEN <<>>
        ELSE << <<"photoUri", m.photoUri>> >>)

\* JSON.stringify(next)
JSONstringify(list) ==
    [kind |-> "json", body |-> [i \in 1..Len(list) |-> StringifyMeal(list[i])]]

HasKey(obj, key) == \E i \in 1..Len(obj) : obj[i][1] = key

\* obj[key]
Get(obj, key) == obj[CHOOSE i \in 1..Len(obj) : obj[i][1] = key][2]

ParseMeal(obj) ==
    [id |-> Get(obj, "id"), ts |-> Get(obj, "ts"),
     description |-> Get(obj, "description"),
     calories |-> Get(obj, "calories"), protein_g |-> Get(obj, "protein_g"),
     photoUri |-> IF HasKey(obj, "photoUri") THEN Get(obj, "photoUri")
                  ELSE Undefined]

\* JSON.parse(raw): throws on a text that is no JSON
JSONparse(raw) ==
    IF raw.kind = "json"
    THEN [threw |-> FALSE,
          value |-> [i \in 1..Len(raw.body) |-> ParseMeal(raw.body[i])]]
    ELSE [threw |-> TRUE, value |-> <<>>]

\* raw ? JSON.parse(raw) : []
LoadValue(raw) ==
    IF raw.kind = "null" THEN [threw |-> FALSE, value |-> <<>>]
    ELSE JSONparse(raw)

\* ------------------------------------------------------------ list helpers
\* meals.filter((m) => m.id === id): the test the wrong way round
RECURSIVE FilterKeepId(_, _)
FilterKeepId(list, id) ==
    IF list = <<>> THEN <<>>
    ELSE (IF Head(list).id = id THEN <<Head(list)>> ELSE <<>>)
         \o FilterKeepId(Tail(list), id)

\* meals.filter((m) => m.id !== id)
RECURSIVE FilterOutId(_, _)
FilterOutId(list, id) ==
    IF list = <<>> THEN <<>>
    ELSE (IF Head(list).id # id THEN <<Head(list)>> ELSE <<>>)
         \o FilterOutId(Tail(list), id)

\* meals.filter((m) => dateKey(m.ts) === day)
RECURSIVE FilterDay(_, _)
FilterDay(list, day) ==
    IF list = <<>> THEN <<>>
    ELSE (IF dateKey(Head(list).ts) = day THEN <<Head(list)>> ELSE <<>>)
         \o FilterDay(Tail(list), day)

\* list.reduce((s, m) => s + m.calories, 0)
RECURSIVE SumCalories(_)
SumCalories(list) ==
    IF list = <<>> THEN 0 ELSE Head(list).calories + SumCalories(Tail(list))

\* list.reduce((s, m) => s + m.protein_g, 0)
RECURSIVE SumProtein(_)
SumProtein(list) ==
    IF list = <<>> THEN 0 ELSE Head(list).protein_g + SumProtein(Tail(list))

DayTotals(list, day) ==
    [calories |-> SumCalories(FilterDay(list, day)),
     protein |-> SumProtein(FilterDay(list, day))]

\* WeekScreen: days.map((day) => ({ day, calories, protein }))
perDay(list, days) ==
    [i \in 1..Len(days) |->
        [day |-> days[i],
         calories |-> SumCalories(FilterDay(list, days[i])),
         protein |-> SumProtein(FilterDay(list, days[i]))]]

\* perDay.reduce((s, d) => s + d.calories, 0)
RECURSIVE SumDayCalories(_)
SumDayCalories(rows) ==
    IF rows = <<>> THEN 0 ELSE Head(rows).calories + SumDayCalories(Tail(rows))

\* perDay.reduce((s, d) => s + d.protein, 0)
RECURSIVE SumDayProtein(_)
SumDayProtein(rows) ==
    IF rows = <<>> THEN 0 ELSE Head(rows).protein + SumDayProtein(Tail(rows))

\* WeekScreen: weeklyTotals
weeklyTotals(rows) ==
    [calories |-> SumDayCalories(rows), protein |-> SumDayProtein(rows)]

\* ------------------------------------------------------------------ state
VARIABLES
    now,         \* Date.now()
    today,       \* HomeScreen: dateKey(Date.now()) of the last render
    meals,       \* HomeScreen: useState<Meal[]>
    showModal, desc, calText, protText, photoUri, estimating,
    alert,       \* the Alert.alert dialog on screen, or "none"
    store,       \* AsyncStorage: the value under STORAGE_KEY
    queue,       \* AsyncStorage: requests issued and not yet carried out
    inbox,       \* settled promises whose awaiting function has not resumed
    weekMounted, \* WeekScreen is mounted
    weekMeals,   \* WeekScreen: useState<Meal[]>
    weekDays,    \* WeekScreen: useMemo(() => lastNDays(7), [])
    unhandled,   \* async functions whose promise rejected with nobody awaiting
    ledger,      \* history: the Meals stored at startup, plus saved, minus deleted
    ops,         \* history: the accepted saveMeal and deleteMeal calls so far
    committed,   \* history: the Meals saved since the form was last opened
    estimateError, \* HomeScreen: useState<string | null>
    zone,        \* the time zone the device is set to
    net,         \* the fetch calls of estimateFromPhoto that have not settled
    server,      \* the backend: its POST /estimate requests
    uploads      \* the backend: the files in uploads/

form == <<showModal, desc, calText, protText, photoUri, estimating,
          estimateError>>

\* what the Home and Week screens never touch
backend == <<server, uploads>>

\* what the ledger's handlers leave alone
rest == <<zone, net, backend>>

week == <<weekMounted, weekMeals, weekDays>>

vars == <<now, today, meals, form, alert, store, queue, inbox, week,
          unhandled, ledger, ops, committed, rest>>

\* ----------------------------------------------------------------- inputs
\* what the user types into the description field
DescTexts == {<<>>, <<" ">>, <<" ", "e">>}

\* what the user types (or pastes) into the calories field: every text of these characters, up to MaxTextLen of them
NumChars == {"7", "-", "a", " "}

NumTexts == UNION {[1..k -> NumChars] : k \in 0..MaxTextLen}

\* what the user types (or pastes) into the protein field
ProtTexts == {<<>>, <<"7">>, <<"a">>, <<"-", "7">>}

\* a Meal saved by an earlier session, at tick 0
PriorMeal(r) == MakeMeal(MealId(0, r), 0, <<"e", "g">>, 3, 1, Undefined)

\* a Meal of the earlier session that drew the id of PriorMeal(0)
PriorTwin == MakeMeal(MealId(0, 0), 0, <<>>, 5, 2, Undefined)

\* what the store may hold when the app starts
InitialStores ==
    {NullRaw, GarbageRaw, JSONstringify(<<PriorMeal(0)>>),
     JSONstringify(<<PriorTwin, PriorMeal(1), PriorMeal(0)>>)}

\* every id saveMeal can produce, and those of the earlier session
AllIds == {MealId(t, r) : t \in 0..MaxNow, r \in 0..RandSteps}

\* --------------------------------------------------------- async functions
\* The frame of an async function suspended at its await: the function and
\* the id it is about (the new Meal's, or deleteMeal's argument).
Frame(fn, id) == [fn |-> fn, id |-> id]

LoadFrame(fn) == Frame(fn, <<>>)

\* AsyncStorage.getItem(STORAGE_KEY), awaited by frame f
GetItem(f) == [frame |-> f, op |-> "getItem", value |-> NullRaw]

\* AsyncStorage.setItem(STORAGE_KEY, value), awaited by frame f
SetItem(f, value) == [frame |-> f, op |-> "setItem", value |-> value]

\* A fetch of estimateFromPhoto that has not settled: the photo it sent, and
\* (history) whether the form has been reopened or its photo changed since.
Fetch(uri) == [photo |-> uri, stale |-> FALSE]

\* the fetches in flight, all of them now of an earlier draft
Superseded(fetches) ==
    [i \in 1..Len(fetches) |-> [fetches[i] EXCEPT !.stale = TRUE]]

\* ------------------------------------------------------------ the backend
\* The text of the model is a sequence of tokens: the two code fences,
\* white space, a word of prose (x), the braces, m for the members
\* description, calories and protein_g of an object (their values are kept
\* beside the text), the number 7 and null.
\* three backticks and json, any case
FenceJson == "fence json"

\* three backticks
Fence == "fence"

\* text.replace(fence\s*, ""), every occurrence
RECURSIVE RemoveFence(_, _)
RemoveFence(text, fence) ==
    IF text = <<>> THEN <<>>
    ELSE IF Head(text) = fence THEN RemoveFence(trimStart(Tail(text)), fence)
    ELSE <<Head(text)>> \o RemoveFence(Tail(text), fence)

\* text.indexOf(c), 0 for -1
indexOf(text, c) ==
    IF \E i \in 1..Len(text) : text[i] = c
    THEN CHOOSE i \in 1..Len(text) :
             text[i] = c /\ \A j \in 1..(i - 1) : text[j] # c
    ELSE 0

\* text.lastIndexOf(c), 0 for -1
lastIndexOf(text, c) ==
    IF \E i \in 1..Len(text) : text[i] = c
    THEN CHOOSE i \in 1..Len(text) :
             text[i] = c /\ \A j \in (i + 1)..Len(text) : text[j] # c
    ELSE 0

extractJson(text) ==
    LET noFences == trim(RemoveFence(RemoveFence(text, FenceJson), Fence))
        start == indexOf(noFences, "{")
        end == lastIndexOf(noFences, "}")
    IN  IF noFences # <<>> /\ Head(noFences) = "{"
           /\ noFences[Len(noFences)] = "}"
        THEN noFences
        ELSE IF start # 0 /\ end # 0 /\ end > start
        THEN SubSeq(noFences, start, end)
        ELSE noFences

\* the values of the three keys of an object
Members(d, c, g) == [description |-> d, calories |-> c, protein_g |-> g]

NoMembers == Members(undefinedValue, undefinedValue, undefinedValue)

RECURSIVE DropWhiteSpace(_)
DropWhiteSpace(text) ==
    IF text = <<>> THEN <<>>
    ELSE (IF IsWhiteSpace(Head(text)) THEN <<>> ELSE <<Head(text)>>)
         \o DropWhiteSpace(Tail(text))

\* JSON.parse(text), members the values the token "m" stands for: an
\* object, a number or null, or a SyntaxError
JSONparseText(text, members) ==
    LET doc == DropWhiteSpace(text)
    IN  CASE doc = <<"{", "}">> ->
                [threw |-> FALSE, kind |-> "object", fields |-> NoMembers]
          [] doc = <<"{", "m", "}">> ->
                [threw |-> FALSE, kind |-> "object", fields |-> members]
          [] doc = <<"7">> ->
                [threw |-> FALSE, kind |-> "number", fields |-> NoMembers]
          [] doc = <<"null">> ->
                [threw |-> FALSE, kind |-> "null", fields |-> NoMembers]
          [] OTHER ->
                [threw |-> TRUE, kind |-> "none", fields |-> NoMembers]

\* the object literal out
Out(fields) ==
    Members(stringValue(String(ValueOr(fields.description,
                                       stringValue(FoodText)))),
            RoundedOrZero(fields.calories),
            RoundedOrZero(fields.protein_g))

\* JSON.stringify of a value of a response body: Infinity and NaN become null
Serialize(v) == IF v.t \in {"Infinity", "NaN"} THEN nullValue ELSE v

\* a response: its status, the error of its body, the raw text and the
\* estimate in it
Response(status, error, raw, body) ==
    [status |-> status, error |-> error, raw |-> raw, body |-> body]

MissingPhoto == Response(400, "Missing photo", <<>>, NoMembers)

ServerError == Response(500, "Server error", <<>>, NoMembers)

NotJson(raw) == Response(500, "Model did not return JSON", raw, NoMembers)

\* res.json(out)
Estimate(out) ==
    Response(200, "", <<>>,
             Members(Serialize(out.description), Serialize(out.calories),
                     Serialize(out.protein_g)))

\* the handler from the text of the model to its response
Answer(text, members) ==
    LET rawText == OrElse(trim(text), <<>>)
        parsed == JSONparseText(extractJson(rawText), members)
    IN  IF parsed.threw THEN NotJson(rawText)
        ELSE IF parsed.kind = "null" THEN ServerError
        ELSE Estimate(Out(parsed.fields))

\* the POST /estimate requests of the backend's session
Requests == 1..MaxRequests

\* req.file is undefined
NoPath == <<>>

\* the file names multer can draw
Paths == {<<Base36[10 + r]>> : r \in Requests}

\* a request that has not arrived yet
NoRequest ==
    [pc |-> "none", path |-> NoPath, failed |-> FALSE, raw |-> <<>>,
     members |-> NoMembers, sent |-> <<>>]

\* the finally block with the clean-up left out
FinallyForgotten(path) == "done"

\* the finally block: fs.unlink(req.file.path, () => {}) when there is a file
Finally(path) == IF path # NoPath THEN "unlink" ELSE "done"

\* a request arrives, with or without a photo field; multer has stored the
\* upload under a name of its own, and the handler runs up to its await
Arrive(r, path, readOk) ==
    /\ server[r].pc = "none"
    /\ path \notin {server[q].path : q \in Requests} \ {NoPath}
    /\ uploads' = IF path = NoPath THEN uploads ELSE uploads \cup {path}
    /\ server' = [server EXCEPT ![r] =
           IF path = NoPath
           THEN [@ EXCEPT !.pc = Finally(path), !.sent = <<MissingPhoto>>]
           ELSE IF ~readOk
           THEN [@ EXCEPT !.pc = Finally(path), !.path = path,
                          !.failed = TRUE, !.sent = <<ServerError>>]
           ELSE [@ EXCEPT !.pc = "upstream", !.path = path]]
    /\ UNCHANGED <<now, today, meals, form, alert, store, queue, inbox, week,
                   unhandled, ledger, ops, committed, zone, net>>

\* openai.responses.create settles: it rejects, or the model's text arrives
\* and the handler runs to its end
Upstream(r, ok, text, members) ==
    /\ server[r].pc = "upstream"
    /\ server' = [server EXCEPT ![r] =
           IF ok
           THEN [@ EXCEPT !.pc = Finally(server[r].path), !.raw = text,
                          !.members = members,
                          !.sent = Append(@, Answer(text, members))]
           ELSE [@ EXCEPT !.pc = Finally(server[r].path), !.failed = TRUE,
                          !.sent = Append(@, ServerError)]]
    /\ UNCHANGED <<now, today, meals, form, alert, store, queue, inbox, week,
                   unhandled, ledger, ops, committed, zone, net, uploads>>

\* fs.unlink of the request's file completes
Unlink(r) ==
    /\ server[r].pc = "unlink"
    /\ uploads' = uploads \ {server[r].path}
    /\ server' = [server EXCEPT ![r].pc = "done"]
    /\ UNCHANGED <<now, today, meals, form, alert, store, queue, inbox, week,
                   unhandled, ledger, ops, committed, zone, net>>

\* a component render of HomeScreen: const today = dateKey(Date.now())
Render == today' = dateKey(now)

\* persist(next), up to its await, called by the function of frame f
persist(next, f) ==
    /\ meals' = next
    /\ queue' = Append(queue, SetItem(f, JSONstringify(next)))

\* HomeScreen after its first render and its load effect, up to the await
Mounted ==
    /\ now = 1
    /\ today = dateKey(1)
    /\ meals = <<>>
    /\ showModal = FALSE
    /\ desc = <<>>
    /\ calText = <<>>
    /\ protText = <<>>
    /\ photoUri = Undefined
    /\ estimating = FALSE
    /\ alert = "none"
    /\ queue = <<GetItem(LoadFrame("HomeLoad"))>>
    /\ inbox = <<>>
    /\ weekMounted = FALSE
    /\ weekMeals = <<>>
    /\ weekDays = <<>>
    /\ unhandled = {}
    /\ ledger = IF LoadValue(store).threw THEN <<>> ELSE LoadValue(store).value
    /\ ops = 0
    /\ committed = 0
    /\ estimateError = Null
    /\ net = <<>>
    /\ server = [r \in Requests |-> NoRequest]
    /\ uploads = {}

\* the app starts on a device whose store holds anything an earlier session,
\* or something else, left under the key
Init == store \in InitialStores /\ zone = UTCZone /\ Mounted

\* ---------------------------------------------------------------- actions
\* time passes
Tick ==
    /\ now < MaxNow
    /\ now' = now + 1
    /\ UNCHANGED <<today, meals, form, alert, store, queue, inbox, week,
                   unhandled, ledger, ops, committed, rest>>

\* "Log meal"
openModal ==
    /\ alert = "none"
    /\ ~showModal
    /\ desc' = <<>>
    /\ calText' = <<>>
    /\ protText' = <<>>
    /\ photoUri' = Undefined
    /\ estimateError' = Null
    /\ estimating' = FALSE
    /\ showModal' = TRUE
    /\ net' = Superseded(net)
    /\ committed' = 0
    /\ Render
    /\ UNCHANGED <<now, meals, alert, store, queue, inbox, week, unhandled,
                   ledger, ops, zone, backend>>

\* onChangeText of the description field
setDesc(t) ==
    /\ alert = "none"
    /\ showModal
    /\ desc' = t
    /\ Render
    /\ UNCHANGED <<now, meals, showModal, calText, protText, photoUri,
                   estimating, estimateError, alert, store, queue, inbox,
                   week, unhandled, ledger, ops, committed, rest>>

\* onChangeText of the calories field
setCalText(t) ==
    /\ alert = "none"
    /\ showModal
    /\ calText' = t
    /\ Render
    /\ UNCHANGED <<now, meals, showModal, desc, protText, photoUri,
                   estimating, estimateError, alert, store, queue, inbox,
                   week, unhandled, ledger, ops, committed, rest>>

\* onChangeText of the protein field
setProtText(t) ==
    /\ alert = "none"
    /\ showModal
    /\ protText' = t
    /\ Render
    /\ UNCHANGED <<now, meals, showModal, desc, calText, photoUri,
                   estimating, estimateError, alert, store, queue, inbox,
                   week, unhandled, ledger, ops, committed, rest>>

\* "Cancel"
Cancel ==
    /\ alert = "none"
    /\ showModal
    /\ ~estimating
    /\ showModal' = FALSE
    /\ Render
    /\ UNCHANGED <<now, meals, desc, calText, protText, photoUri, estimating,
                   estimateError, alert, store, queue, inbox, week, unhandled,
                   ledger, ops, committed, rest>>

\* the user closes the dialog
DismissAlert ==
    /\ alert # "none"
    /\ alert' = "none"
    /\ UNCHANGED <<now, today, meals, form, store, queue, inbox, week,
                   unhandled, ledger, ops, committed, rest>>

\* the calories and protein saveMeal reads from the form
SaveCalories == parseInt(OrElse(calText, <<"0">>))

SaveProtein == parseInt(OrElse(protText, <<"0">>))

SaveRejects == NumberIsNaN(SaveCalories) \/ NumberIsNaN(SaveProtein)

\* the Meal saveMeal builds when Math.random() falls in step r
NewMeal(r) ==
    MakeMeal(MealId(now, r), now, desc, SaveCalories.n, SaveProtein.n, photoUri)

\* "Save", up to the await of persist
saveMeal(r) ==
    /\ alert = "none"
    /\ showModal
    /\ ~estimating
    /\ IF SaveRejects
       THEN /\ alert' = "Invalid input"
            /\ UNCHANGED <<today, meals, queue, ledger, ops, committed>>
       ELSE /\ ops < MaxOps
            /\ persist(<<NewMeal(r)>> \o meals,
                       Frame("saveMeal", NewMeal(r).id))
            /\ ledger' = <<NewMeal(r)>> \o ledger
            /\ ops' = ops + 1
            /\ committed' = committed + 1
            /\ Render
            /\ UNCHANGED alert
    /\ UNCHANGED <<now, form, store, inbox, week, unhandled, rest>>

\* "Delete" of the confirmation dialog of a row, up to the await of persist
deleteMeal(id) ==
    /\ alert = "none"
    /\ ~showModal
    /\ ops < MaxOps
    /\ persist(FilterOutId(meals, id), Frame("deleteMeal", id))
    /\ ledger' = FilterOutId(ledger, id)
    /\ ops' = ops + 1
    /\ Render
    /\ UNCHANGED <<now, form, alert, store, inbox, week, unhandled,
                   committed, rest>>

\* "Take photo", to the end of takePhoto: the permission is refused, the
\* camera is left without a picture (uri = Undefined), or a picture is taken.
\* The system dialogs cover the form while takePhoto is suspended.
takePhoto(granted, uri) ==
    /\ alert = "none"
    /\ showModal
    /\ ~estimating
    /\ IF ~granted
       THEN /\ alert' = "Camera permission needed"
            /\ UNCHANGED <<photoUri, net, today>>
       ELSE IF uri = Undefined
       THEN UNCHANGED <<alert, photoUri, net, today>>
       ELSE /\ photoUri' = uri
            /\ net' = Superseded(net)
            /\ Render
            /\ UNCHANGED alert
    /\ UNCHANGED <<now, meals, showModal, desc, calText, protText, estimating,
                   estimateError, store, queue, inbox, week, unhandled,
                   ledger, ops, committed, zone, backend>>

\* "Remove photo"
removePhoto ==
    /\ alert = "none"
    /\ showModal
    /\ ~estimating
    /\ photoUri # Undefined
    /\ photoUri' = Undefined
    /\ net' = Superseded(net)
    /\ Render
    /\ UNCHANGED <<now, meals, showModal, desc, calText, protText, estimating,
                   estimateError, alert, store, queue, inbox, week, unhandled,
                   ledger, ops, committed, zone, backend>>

\* "Estimate from photo", up to await fetch(...)
estimateFromPhoto ==
    /\ alert = "none"
    /\ showModal
    /\ ~estimating
    /\ photoUri # Undefined
    /\ estimateError' = Null
    /\ estimating' = TRUE
    /\ net' = Append(net, Fetch(photoUri))
    /\ Render
    /\ UNCHANGED <<now, meals, showModal, desc, calText, protText, photoUri,
                   alert, store, queue, inbox, week, unhandled, ledger, ops,
                   committed, zone, backend>>

DefaultMessage == "Couldn't estimate from photo. Try again."

\* the message, with the error dropped
ErrorMessageLost(message) == Null

\* e?.message || "Couldn't estimate from photo. Try again."
ErrorMessage(message) == IF message = "" THEN DefaultMessage ELSE message

\* sequence s without its i-th element
RemoveAt(s, i) == SubSeq(s, 1, i - 1) \o SubSeq(s, i + 1, Len(s))

\* The i-th fetch in flight settles and estimateFromPhoto runs to its end.
\* It failed (fetch rejected, the response was not ok, or its body was no
\* JSON object) with the message of the error, or data holds the members
\* of the body.
Respond(i, failed, message, data) ==
    /\ i \in 1..Len(net)
    /\ net' = RemoveAt(net, i)
    /\ IF failed
       THEN /\ estimateError' = ErrorMessage(message)
            /\ UNCHANGED <<desc, calText, protText>>
       ELSE /\ desc' = ValueOr(data.description, stringValue(FoodText)).s
            /\ calText' = String(RoundedOrZero(data.calories))
            /\ protText' = String(RoundedOrZero(data.protein_g))
            /\ UNCHANGED estimateError
    /\ estimating' = FALSE
    /\ Render
    /\ UNCHANGED <<now, meals, showModal, photoUri, alert, store, queue,
                   inbox, week, unhandled, ledger, ops, committed, zone, backend>>

\* the user opens the Week tab: the first render and the load effect
WeekMount ==
    /\ ~weekMounted
    /\ ~showModal
    /\ alert = "none"
    /\ weekMounted' = TRUE
    /\ weekDays' = lastNDays(WeekLen, now, zone)
    /\ queue' = Append(queue, GetItem(LoadFrame("WeekLoad")))
    /\ UNCHANGED <<now, today, meals, form, alert, store, inbox, weekMeals,
                   unhandled, ledger, ops, committed, rest>>

\* AsyncStorage carries out its oldest request; it succeeds or fails (ok)
StoreStep(ok) ==
    /\ queue # <<>>
    /\ LET req == Head(queue)
       IN  /\ store' = IF ok /\ req.op = "setItem" THEN req.value ELSE store
           /\ inbox' = Append(inbox,
                  [frame |-> req.frame, ok |-> ok,
                   raw |-> IF ok /\ req.op = "getItem" THEN store ELSE NullRaw])
    /\ queue' = Tail(queue)
    /\ UNCHANGED <<now, today, meals, form, alert, week, unhandled, ledger,
                   ops, committed, rest>>

\* the load effect of HomeScreen after its await: setMeals(raw ? ... : [])
ResumeHomeLoad(msg) ==
    /\ IF msg.ok /\ ~LoadValue(msg.raw).threw
       THEN /\ meals' = LoadValue(msg.raw).value
            /\ Render
            /\ UNCHANGED unhandled
       ELSE /\ unhandled' = unhandled \cup {"HomeLoad"}
            /\ UNCHANGED <<meals, today>>
    /\ UNCHANGED <<form, week>>

\* the load effect of WeekScreen after its await
ResumeWeekLoad(msg) ==
    /\ IF msg.ok /\ ~LoadValue(msg.raw).threw
       THEN /\ weekMeals' = LoadValue(msg.raw).value
            /\ UNCHANGED unhandled
       ELSE /\ unhandled' = unhandled \cup {"WeekLoad"}
            /\ UNCHANGED weekMeals
    /\ UNCHANGED <<meals, today, form, weekMounted, weekDays>>

\* saveMeal after await persist(...): setShowModal(false)
ResumeSaveMeal(msg) ==
    /\ IF msg.ok
       THEN /\ showModal' = FALSE
            /\ Render
            /\ UNCHANGED unhandled
       ELSE /\ unhandled' = unhandled \cup {"saveMeal"}
            /\ UNCHANGED <<showModal, today>>
    /\ UNCHANGED <<meals, desc, calText, protText, photoUri, estimating,
                   estimateError, week>>

\* deleteMeal after await persist(...): nothing is left to do
ResumeDeleteMeal(msg) ==
    /\ IF msg.ok
       THEN UNCHANGED unhandled
       ELSE unhandled' = unhandled \cup {"deleteMeal"}
    /\ UNCHANGED <<meals, today, form, week>>

\* the oldest settled promise resumes the function awaiting it
Resume ==
    /\ inbox # <<>>
    /\ LET msg == Head(inbox)
       IN  CASE msg.frame.fn = "HomeLoad" -> ResumeHomeLoad(msg)
             [] msg.frame.fn = "WeekLoad" -> ResumeWeekLoad(msg)
             [] msg.frame.fn = "saveMeal" -> ResumeSaveMeal(msg)
             [] msg.frame.fn = "deleteMeal" -> ResumeDeleteMeal(msg)
    /\ inbox' = Tail(inbox)
    /\ UNCHANGED <<now, alert, store, queue, ledger, ops, committed, rest>>

\* todaysMeals: the rows on screen, each with its "Del" button
todaysMeals == FilterDay(meals, today)

\* the ids the user can delete: those of the rows on screen
RowIds == {todaysMeals[i].id : i \in 1..Len(todaysMeals)}

\* The session: the user logs meals without typing numbers, deletes rows
\* and opens the Week tab, while the clock runs and the store may fail.
Next ==
    \/ Tick
    \/ openModal
    \/ Cancel
    \/ \E r \in 0..RandSteps : saveMeal(r)
    \/ \E id \in RowIds : deleteMeal(id)
    \/ WeekMount
    \/ \E ok \in BOOLEAN : StoreStep(ok)
    \/ Resume

Spec == Init /\ [][Next]_vars

\* The entry form, from an empty ledger: the user fills in the form of the
\* first meal, saves, cancels and deletes; every store request succeeds.
InitForm == store = NullRaw /\ zone = UTCZone /\ Mounted

NextForm ==
    \/ openModal
    \/ \E t \in DescTexts : ops = 0 /\ setDesc(t)
    \/ \E t \in NumTexts : ops = 0 /\ setCalText(t)
    \/ \E t \in ProtTexts : ops = 0 /\ setProtText(t)
    \/ Cancel
    \/ DismissAlert
    \/ \E r \in 0..RandSteps : saveMeal(r)
    \/ \E id \in RowIds : deleteMeal(id)
    \/ StoreStep(TRUE)
    \/ Resume

SpecForm == InitForm /\ [][NextForm]_vars

\* The ledger without the Week tab: the user saves, and deleteMeal is called
\* with any id, of a Meal in the list or of none, while the store may fail.
NextLedger ==
    \/ openModal
    \/ Cancel
    \/ \E r \in 0..RandSteps : saveMeal(r)
    \/ \E id \in AllIds : deleteMeal(id)
    \/ \E ok \in BOOLEAN : StoreStep(ok)
    \/ Resume

SpecLedger == Init /\ [][NextLedger]_vars

\* The Week tab on a device in any time zone: the clock runs, the user opens
\* the tab and its load completes.
InitDays == store \in InitialStores /\ zone \in Zones /\ Mounted

NextDays ==
    \/ Tick
    \/ WeekMount
    \/ StoreStep(TRUE)
    \/ Resume

SpecDays == InitDays /\ [][NextDays]_vars

\* ----------------------------------------------------------- claim helpers
Range(list) == {list[i] : i \in 1..Len(list)}

Last(list) == list[Len(list)]

\* the Meals of the stored snapshot, when it is the JSON text of a list
StoredMeals == IF store.kind = "json" THEN JSONparse(store).value ELSE <<>>

\* text that is an optional sign and then decimal digits only, white space
\* around it allowed
WellFormedInteger(t) ==
    LET s == trim(t)
        d == IF s # <<>> /\ Head(s) \in {"+", "-"} THEN Tail(s) ELSE s
    IN  d # <<>> /\ \A i \in 1..Len(d) : IsDigit(d[i])

\* the number a well-formed integer text denotes, read from its last digit
RECURSIVE DecimalValue(_)
DecimalValue(d) ==
    IF d = <<>> THEN 0
    ELSE DigitValue(d[Len(d)]) + 10 * DecimalValue(SubSeq(d, 1, Len(d) - 1))

Denotes(t) ==
    LET s == trim(t)
    IN  IF Head(s) = "-" THEN 0 - DecimalValue(Tail(s))
        ELSE IF Head(s) = "+" THEN DecimalValue(Tail(s))
        ELSE DecimalValue(s)

DenotesNegative(t) == WellFormedInteger(t) /\ Denotes(t) < 0

\* a text of white space only, or empty
IsBlank(t) == \A i \in 1..Len(t) : t[i] = " "

\* a text that is a well-formed integer >= 0
ValidEntry(t) == WellFormedInteger(t) /\ Denotes(t) >= 0

NonNegative(list) == \A m \in Range(list) : m.calories >= 0 /\ m.protein_g >= 0

\* some function suspended at its await, or about to resume, is fn for id
Pending(fn, id) ==
    \/ \E req \in Range(queue) : req.frame = Frame(fn, id)
    \/ \E msg \in Range(inbox) : msg.frame = Frame(fn, id)

\* ---------------------------------------------------------------- claim C1
NonNegativeEverywhere ==
    /\ NonNegative(meals)
    /\ NonNegative(StoredMeals)
    /\ \A req \in Range(queue) :
           req.op = "setItem" => NonNegative(JSONparse(req.value).value)

NegativeRejected ==
    ((\E r \in 0..RandSteps : saveMeal(r))
     /\ (DenotesNegative(calText) \/ DenotesNegative(protText)))
    => alert' = "Invalid input" /\ meals' = meals /\ queue' = queue

\* C1: every Meal of the in-memory list and of the stored snapshot has
\* calories and protein_g >= 0, and a saveMeal whose calories or protein
\* text denotes a negative number is rejected and builds no Meal.
C1_NonNegative == []NonNegativeEverywhere /\ [][NegativeRejected]_vars

\* ---------------------------------------------------------------- claim C2
\* C2: a saveMeal whose calories or protein text is non-blank and is not a
\* well-formed integer reports invalid input and changes neither the
\* in-memory list nor the store (no write is issued); the form stays open.
C2_MalformedRejected ==
    [][((\E r \in 0..RandSteps : saveMeal(r))
        /\ \/ (calText # <<>> /\ ~WellFormedInteger(calText))
           \/ (protText # <<>> /\ ~WellFormedInteger(protText)))
       => /\ alert' = "Invalid input"
          /\ meals' = meals
          /\ store' = store
          /\ queue' = queue
          /\ showModal']_vars

\* ---------------------------------------------------------------- claim C3
\* C3: a saveMeal of two valid non-negative integer entries (a blank entry
\* counts as 0) prepends exactly one Meal with those values, whose id
\* differs from the id of every Meal already in the list, and leaves the
\* Meals already there unchanged and in their order.
C3_SavePrependsFresh ==
    [][((\E r \in 0..RandSteps : saveMeal(r))
        /\ (calText = <<>> \/ ValidEntry(calText))
        /\ (protText = <<>> \/ ValidEntry(protText)))
       => /\ Len(meals') = Len(meals) + 1
          /\ Tail(meals') = meals
          /\ Head(meals').calories =
                 IF calText = <<>> THEN 0 ELSE Denotes(calText)
          /\ Head(meals').protein_g =
                 IF protText = <<>> THEN 0 ELSE Denotes(protText)
          /\ \A m \in Range(meals) : m.id # Head(meals').id]_vars

\* ---------------------------------------------------------------- claim C4
\* C4: saveMeal with both number fields blank is accepted and builds a Meal
\* with calories 0 and protein_g 0; with one field blank and the other a
\* valid integer >= 0 the blank one gives 0 and the other its value; a blank or
\* white-space-only description becomes "Meal".
C4_BlankIsZero ==
    [][(\E r \in 0..RandSteps : saveMeal(r))
       => /\ (calText = <<>> /\ protText = <<>>)
                => /\ alert' = "none"
                   /\ Len(meals') = Len(meals) + 1
                   /\ Head(meals').calories = 0
                   /\ Head(meals').protein_g = 0
          /\ (calText = <<>> /\ ValidEntry(protText))
                => /\ Len(meals') = Len(meals) + 1
                   /\ Head(meals').calories = 0
                   /\ Head(meals').protein_g = Denotes(protText)
          /\ (protText = <<>> /\ ValidEntry(calText))
                => /\ Len(meals') = Len(meals) + 1
                   /\ Head(meals').protein_g = 0
                   /\ Head(meals').calories = Denotes(calText)
          /\ (Len(meals') = Len(meals) + 1 /\ IsBlank(desc))
                => Head(meals').description = MealText]_vars

\* a Meal was just saved from a form with both number fields blank and a
\* description of one space
C4_Witness ==
    /\ showModal
    /\ calText = <<>>
    /\ protText = <<>>
    /\ desc = <<" ">>
    /\ Len(meals) = 1
    /\ Pending("saveMeal", meals[1].id)
    /\ meals[1].calories = 0
    /\ meals[1].protein_g = 0
    /\ meals[1].description = MealText

\* ---------------------------------------------------------------- claim C5
KeepsOthers(id) ==
    /\ meals' = SelectSeq(meals, LAMBDA m : m.id # id)
    /\ \A m \in Range(meals') : m.id # id
    /\ Len(queue') = Len(queue) + 1
    /\ Last(queue') = SetItem(Frame("deleteMeal", id), JSONstringify(meals'))

NotFoundIsNoOp(id) ==
    (\A m \in Range(meals) : m.id # id)
    => meals' = meals /\ unhandled' = unhandled /\ alert' = alert

\* the call before this one was deleteMeal(id) too, and nothing ran since
SecondInARow(id) ==
    /\ queue # <<>>
    /\ Last(queue).frame = Frame("deleteMeal", id)
    /\ JSONparse(Last(queue).value).value = meals

Idempotent(id) ==
    SecondInARow(id) => meals' = meals /\ Last(queue').value = Last(queue).value

\* C5: deleteMeal(id) removes exactly the Meals whose id is id and keeps
\* the others, unchanged and in order, writing the new list once; with no
\* such Meal the list is unchanged and nothing is raised; a second
\* deleteMeal(id) in a row leaves the list, and the value written, as the
\* first did.
C5_DeleteById ==
    [][\A id \in AllIds :
           deleteMeal(id) => KeepsOthers(id) /\ NotFoundIsNoOp(id) /\ Idempotent(id)]_vars

\* deleteMeal has just removed the two Meals sharing an id from a list of
\* three (its write is still queued, the store holds all three), and the
\* third Meal remains
C5_Witness ==
    /\ Len(StoredMeals) = 3
    /\ Len(meals) = 1
    /\ queue # <<>>
    /\ Last(queue).frame.fn = "deleteMeal"
    /\ Last(queue).value = JSONstringify(meals)
    /\ meals[1] = StoredMeals[2]
    /\ StoredMeals[1].id = Last(queue).frame.id
    /\ StoredMeals[3].id = Last(queue).frame.id

\* ---------------------------------------------------------------- claim C6
\* no store request is waiting and no function is suspended at an await
Quiescent == queue = <<>> /\ inbox = <<>>

NoWriteFailed == unhandled \cap {"saveMeal", "deleteMeal"} = {}

Mutation ==
    (\E r \in 0..RandSteps : saveMeal(r)) \/ (\E id \in AllIds : deleteMeal(id))

\* a mutation sets the list and issues one write of the whole new list in
\* the same step, before its await; a rejected saveMeal issues none
PersistsOnce ==
    Mutation =>
        IF showModal /\ SaveRejects
        THEN queue' = queue /\ meals' = meals
        ELSE /\ Len(queue') = Len(queue) + 1
             /\ SubSeq(queue', 1, Len(queue)) = queue
             /\ Last(queue').op = "setItem"
             /\ Last(queue').value = JSONstringify(meals')

SnapshotInSync ==
    (Quiescent /\ NoWriteFailed /\ ops > 0)
    => store.kind = "json" /\ StoredMeals = meals

\* C6: every accepted saveMeal and every deleteMeal updates the in-memory
\* list before its first await and issues exactly one store write of the
\* whole new list (a rejected saveMeal none); whenever every issued write
\* has succeeded and nothing is in progress, the stored snapshot equals the
\* in-memory list.
C6_FullPersist == [][PersistsOnce]_vars /\ []SnapshotInSync

\* ---------------------------------------------------------------- claim C7
\* C7: under every interleaving of the startup load with saveMeal, deleteMeal
\* and their store writes no update is lost: once everything has completed
\* (and nothing failed), the in-memory list and the stored snapshot hold
\* exactly the Meals stored at startup, plus those saved, minus those
\* deleted.
C7_NoLostUpdate ==
    (Quiescent /\ unhandled = {})
    => /\ Range(meals) = Range(ledger)
       /\ Range(StoredMeals) = Range(ledger)

\* ---------------------------------------------------------------- claim C8
LoadEnded(fn) == ~Pending(fn, <<>>)

\* C8: when the store holds nothing or no parseable list under the key, or
\* the read fails, the load of the Home screen and of the Week screen ends
\* with an empty list and no error escapes.
C8_LoadFailsClosed ==
    /\ unhandled \cap {"HomeLoad", "WeekLoad"} = {}
    /\ (LoadEnded("HomeLoad") /\ ops = 0 /\ store.kind # "json")
           => meals = <<>>
    /\ (weekMounted /\ LoadEnded("WeekLoad") /\ ops = 0 /\ store.kind # "json")
           => weekMeals = <<>>

\* ---------------------------------------------------------------- claim C9
\* the store fails the write at the head of its queue
WriteFails == StoreStep(FALSE) /\ Head(queue).op = "setItem"

\* the function whose write failed resumes
ResumesAfterFailure ==
    /\ Resume
    /\ Head(inbox).frame.fn \in {"saveMeal", "deleteMeal"}
    /\ ~Head(inbox).ok

FailureTolerated ==
    /\ WriteFails => meals' = meals /\ store' = store
    /\ ResumesAfterFailure
           => /\ meals' = meals
              /\ unhandled' = unhandled
              /\ Head(inbox).frame.fn = "saveMeal" => ~showModal'
    /\ (Mutation /\ ~NoWriteFailed /\ ~(showModal /\ SaveRejects))
           => Last(queue').value = JSONstringify(meals')

\* C9: when the store write of saveMeal or deleteMeal fails, the in-memory
\* list stays the mutated list, no error escapes and the operation ends as
\* on success (saveMeal closes the form), and the next store write carries
\* the whole current in-memory list.
C9_WriteFailureTolerated == [][FailureTolerated]_vars

\* --------------------------------------------------------------- claim C10
\* the totals HomeScreen shows for today
HomeTotals == DayTotals(meals, today)

\* the totals WeekScreen shows in its first row, today
WeekTodayTotals == DayTotals(weekMeals, weekDays[1])

\* the store holds exactly the list of the Home screen
StoreHoldsHomeList ==
    \/ store.kind = "null" /\ meals = <<>>
    \/ store.kind = "json" /\ StoredMeals = meals

\* C10: once the saveMeal and deleteMeal calls of the Home screen and their
\* store writes have completed, the list the Week screen aggregates over is
\* the list of the Home screen, and when both screens show the same day as
\* today their totals for it are equal, whether the Week screen was mounted
\* before or after the mutations.
C10_WeekSeesLedger ==
    (weekMounted /\ Quiescent /\ unhandled = {} /\ StoreHoldsHomeList)
    => /\ weekMeals = meals
       /\ weekDays[1] = today => WeekTodayTotals = HomeTotals

\* The backend under concurrent requests: each arrives with or without a
\* photo, reading the upload may fail, the model call rejects or answers,
\* and the clean-up of each request completes on its own.
FewTexts == {<<"{", "m", "}">>, <<"x">>}

FewMembers == {Members(stringValue(<<"e", "g">>), integerValue(7), nullValue)}

InitServer == store = NullRaw /\ zone = UTCZone /\ Mounted

SettleUpstream(r) ==
    \E ok \in BOOLEAN, text \in FewTexts, members \in FewMembers :
        Upstream(r, ok, text, members)

NextServer ==
    \/ \E r \in Requests, path \in Paths \cup {NoPath}, readOk \in BOOLEAN :
           Arrive(r, path, readOk)
    \/ \E r \in Requests : SettleUpstream(r)
    \/ \E r \in Requests : Unlink(r)

\* the model call settles (the client library times out) and the event loop
\* of Node runs the callback of every unlink
SpecServer ==
    /\ InitServer
    /\ [][NextServer]_vars
    /\ \A r \in Requests : WF_vars(SettleUpstream(r)) /\ WF_vars(Unlink(r))

\* The answers of the backend: one request at a time, the model answering
\* with any of the texts below, the members holding any JSON values.
ModelTexts ==
    {<<"{", "m", "}">>,
     <<FenceJson, " ", "{", "m", "}", " ", Fence>>,
     <<"x", " ", "{", "m", "}", " ", "x">>,
     <<" ", "{", " ", "m", " ", "}", " ">>,
     <<"{", "m", "}", " ", "x", " ", "{", "m", "}">>,
     <<"{", "m">>,
     <<"{", "}">>,
     <<"x">>,
     <<>>,
     <<"7">>,
     <<"null">>}

\* what a JSON text can hold under calories or protein_g
FieldValues ==
    {undefinedValue, nullValue, booleanValue(TRUE), integerValue(0),
     integerValue(7), numberValue(3107, 1), numberValue(-25, 1),
     infinityValue, stringValue(<<"3", "1", "0", ".", "7">>),
     stringValue(<<"a">>), stringValue(<<>>)}

\* what a JSON text can hold under description
DescValues ==
    {undefinedValue, nullValue, stringValue(<<>>), stringValue(<<"e", "g">>),
     integerValue(7)}

\* fewer of them, for the second number of an object
FewFieldValues == {nullValue, integerValue(7), stringValue(<<"a">>)}

AllMembers ==
    {Members(d, c, g) :
        d \in DescValues, c \in FieldValues, g \in FewFieldValues}

\* the members a text can come with
MembersOf(text) ==
    IF \E i \in 1..Len(text) : text[i] = "m" THEN AllMembers ELSE {NoMembers}

\* no other request has arrived
Alone(r) == \A q \in Requests \ {r} : server[q].pc = "none"

NextAnswer ==
    \/ \E r \in Requests, path \in Paths \cup {NoPath}, readOk \in BOOLEAN :
           Alone(r) /\ Arrive(r, path, readOk)
    \/ \E r \in Requests, ok \in BOOLEAN, text \in ModelTexts :
           \E members \in MembersOf(text) : Upstream(r, ok, text, members)
    \/ \E r \in Requests : Unlink(r)

SpecAnswer == InitServer /\ [][NextAnswer]_vars

\* The draft and the estimate: the user opens the form, takes and removes
\* photos and asks for estimates; the endpoint answers with a failure or
\* with a body holding any JSON values.
PhotoUris == {"file:1.jpg", "file:2.jpg"}

\* the message of the error thrown: none, fetch's, or that of a status
Messages == {"", "Network request failed", "Server error 500: {}"}

\* the descriptions a body holds: a string when there is one
BodyDescValues ==
    {undefinedValue, nullValue, stringValue(<<>>), stringValue(<<"e", "g">>)}

Bodies ==
    {Members(d, c, g) :
        d \in BodyDescValues, c \in FieldValues, g \in FewFieldValues}

Shoot ==
    \E granted \in BOOLEAN, uri \in PhotoUris \cup {Undefined} :
        takePhoto(granted, uri)

NextNormalize ==
    \/ openModal
    \/ Cancel
    \/ DismissAlert
    \/ Shoot
    \/ removePhoto
    \/ estimateFromPhoto
    \/ \E i \in 1..Len(net), message \in Messages : Respond(i, TRUE, message, NoMembers)
    \/ \E i \in 1..Len(net), data \in Bodies : Respond(i, FALSE, "", data)
    \/ StoreStep(TRUE)
    \/ Resume

SpecNormalize == InitForm /\ [][NextNormalize]_vars

\* The entry form with the estimate and the store: the user takes
\* photos, asks for estimates that fail or succeed, and saves, while the
\* writes of the store succeed or fail.
FetchFailed == "Network request failed"

NextEstimate ==
    \/ openModal
    \/ Cancel
    \/ \E uri \in PhotoUris : takePhoto(TRUE, uri)
    \/ estimateFromPhoto
    \/ \E i \in 1..Len(net) : Respond(i, TRUE, FetchFailed, NoMembers)
    \/ \E i \in 1..Len(net), data \in FewMembers : Respond(i, FALSE, "", data)
    \/ \E r \in 0..RandSteps : saveMeal(r)
    \/ \E ok \in BOOLEAN : StoreStep(ok)
    \/ Resume

SpecEstimate == InitForm /\ [][NextEstimate]_vars

\* --------------------------------------------------------------- claim C11
\* day keys that go back one calendar day at a time from the day of instant t
ConsecutiveFrom(days, t) ==
    /\ Len(days) = WeekLen
    /\ days[1] = dateKey(t)
    /\ \A i \in 1..(Len(days) - 1) : days[i + 1] = days[i] - 1

\* the days WeekScreen computes when it mounts
MountDaysConsecutive == WeekMount => ConsecutiveFrom(weekDays', now)

\* C11: at every instant and in every time zone, also next to a clock
\* change, lastNDays(7) is 7 day keys, the first the day key of now and each
\* next one the calendar day before; lastNDays(0) is empty.
C11_SevenDays ==
    /\ [][MountDaysConsecutive]_vars
    /\ [](lastNDays(0, now, zone) = <<>>)

\* --------------------------------------------------------------- claim C12
\* the Meals of the list whose day is one of the days, each taken once
RECURSIVE InWindow(_, _)
InWindow(list, days) ==
    IF list = <<>> THEN <<>>
    ELSE (IF dateKey(Head(list).ts) \in Range(days) THEN <<Head(list)>>
          ELSE <<>>)
         \o InWindow(Tail(list), days)

\* what WeekScreen shows as the week's totals
WeekTotalsShown == weeklyTotals(perDay(weekMeals, weekDays))

\* C12: the weekly totals of the Week screen are the sums of calories and
\* protein_g over exactly the Meals whose day is one of the 7 days of
\* lastNDays(7): none counted twice or left out, none outside counted.
C12_WeekTotals ==
    weekMounted =>
        /\ WeekTotalsShown.calories = SumCalories(InWindow(weekMeals, weekDays))
        /\ WeekTotalsShown.protein = SumProtein(InWindow(weekMeals, weekDays))

\* --------------------------------------------------------------- claim C13
\* the positions of the Meals of a day in a list
OfDay(list, day) == {i \in 1..Len(list) : dateKey(list[i].ts) = day}

\* the sums over a set of positions of a list, taken in any order
RECURSIVE SumAt(_, _)
SumAt(list, at) ==
    IF at = {} THEN [calories |-> 0, protein |-> 0]
    ELSE LET i == CHOOSE j \in at : TRUE
             others == SumAt(list, at \ {i})
         IN  [calories |-> list[i].calories + others.calories,
              protein |-> list[i].protein_g + others.protein]

\* the rows WeekScreen shows, one for each of its days
WeekRows == perDay(weekMeals, weekDays)

\* every total on screen is the sum over the Meals of its day
DayTotalsExact ==
    /\ HomeTotals = SumAt(meals, OfDay(meals, today))
    /\ \A i \in 1..Len(WeekRows) :
           [calories |-> WeekRows[i].calories, protein |-> WeekRows[i].protein]
               = SumAt(weekMeals, OfDay(weekMeals, weekDays[i]))

DayTotalsNonNegative ==
    /\ HomeTotals.calories >= 0 /\ HomeTotals.protein >= 0
    /\ \A i \in 1..Len(WeekRows) :
           WeekRows[i].calories >= 0 /\ WeekRows[i].protein >= 0

\* C13: in every reachable state each per-day total on screen (Home today,
\* each day of the Week screen) is the sum of calories and protein_g over
\* exactly the Meals of that day, whatever their order, {0, 0} for a day
\* without Meals, and never negative.
C13_DayTotals == DayTotalsExact /\ DayTotalsNonNegative

\* --------------------------------------------------------------- claim C14
\* request r uploaded a file
Uploaded(r) == server[r].path # NoPath

\* request r has its response and its file is gone
CleanedUp(r) ==
    /\ server[r].pc = "done"
    /\ Len(server[r].sent) = 1
    /\ server[r].path \notin uploads

\* while a request waits for the model its own file is there: no other
\* request has removed it
FileKeptWhileInUse ==
    \A r \in Requests : server[r].pc = "upstream" => server[r].path \in uploads

\* the clean-up of a request takes away its own file and nothing else
RemovesOwnFile ==
    \A r \in Requests :
        Unlink(r) => uploads' = uploads \ {server[r].path}

\* C14: the temporary file of every request that uploaded one is eventually
\* removed once the request has its response, on the 200 path and on both
\* 500 paths (the model call or the read failing included), and concurrent
\* requests remove only their own file.
C14_FileRemoved ==
    /\ \A r \in Requests : Uploaded(r) ~> CleanedUp(r)
    /\ []FileKeptWhileInUse
    /\ [][RemovesOwnFile]_vars

\* two requests were in flight together; one, answered with a 500, has
\* cleaned up while the file of the other is still in use
C14_Witness ==
    \E r \in Requests, q \in Requests :
        /\ r # q
        /\ Uploaded(r) /\ CleanedUp(r) /\ server[r].sent[1].status = 500
        /\ server[q].pc = "upstream" /\ server[q].path \in uploads

\* --------------------------------------------------------------- claim C15
\* the handler of request r has run to its end
Responded(r) == server[r].pc \in {"unlink", "done"}

\* the text of the model holds one JSON object, bare or inside fences or
\* prose
HoldsObject(text, members) ==
    LET parsed == JSONparseText(extractJson(trim(text)), members)
    IN  ~parsed.threw /\ parsed.kind = "object"

\* the response the claim gives request r
RightResponse(r, resp) ==
    CASE ~Uploaded(r) -> resp = MissingPhoto
      [] server[r].failed -> resp = ServerError
      [] ~HoldsObject(server[r].raw, server[r].members) ->
            resp = NotJson(trim(server[r].raw))
      [] OTHER ->
            /\ resp.status = 200
            /\ resp.body.description.t = "string"
            /\ IsInteger(resp.body.calories)
            /\ IsInteger(resp.body.protein_g)

\* C15: every POST /estimate request gets exactly one response: 400 Missing
\* photo without a photo field; 500 Model did not return JSON, with the raw
\* text, when the text of the model is no JSON or not the expected object;
\* 500 Server error on any other failure; otherwise 200 with a string
\* description and integer calories and protein_g.
C15_OneResponse ==
    \A r \in Requests :
        IF Responded(r)
        THEN Len(server[r].sent) = 1 /\ RightResponse(r, server[r].sent[1])
        ELSE server[r].sent = <<>>

\* --------------------------------------------------------------- claim C16
\* a text that is a decimal number: an optional sign, digits, at most one
\* point, white space around it allowed
Unsigned(s) ==
    LET t == trim(s)
    IN  IF t # <<>> /\ Head(t) \in {"+", "-"} THEN Tail(t) ELSE t

NumericText(s) ==
    LET b == Unsigned(s)
    IN  /\ \A i \in 1..Len(b) : IsDigit(b[i]) \/ b[i] = "."
        /\ Cardinality({i \in 1..Len(b) : b[i] = "."}) <= 1
        /\ \E i \in 1..Len(b) : IsDigit(b[i])

\* the number n / 10^e a numeric text denotes
DecimalOf(s) ==
    LET b == Unsigned(s)
        point == indexOf(b, ".")
        digits == SelectSeq(b, IsDigit)
        sign == IF Head(trim(s)) = "-" THEN -1 ELSE 1
    IN  [n |-> sign * DecimalValue(digits),
         e |-> IF point = 0 THEN 0 ELSE Len(b) - point]

\* k is an integer nearest to n / 10^e
Nearest(n, e, k) ==
    LET twice == 2 * (n - k * Pow10(e))
    IN  twice <= Pow10(e) /\ -twice <= Pow10(e)

\* k is what the value of a calories or protein_g field is normalized to
NormalNumber(v, k) ==
    CASE v.t = "number" -> Nearest(v.n, v.e, k)
      [] v.t = "string" /\ NumericText(v.s) ->
            Nearest(DecimalOf(v.s).n, DecimalOf(v.s).e, k)
      [] v.t = "Infinity" -> FALSE
      [] OTHER -> k = 0

\* text is what the value of a description field is normalized to
NormalDescription(v, text) ==
    CASE v.t \in {"undefined", "null"} -> text = FoodText
      [] v.t = "string" -> text = (IF v.s = <<>> THEN FoodText ELSE v.s)
      [] OTHER -> TRUE

\* the draft after a successful estimate holds the normalized values
DraftNormalized ==
    \A i \in 1..Len(net), data \in Bodies :
        Respond(i, FALSE, "", data) =>
            /\ NormalDescription(data.description, desc')
            /\ WellFormedInteger(calText')
            /\ NormalNumber(data.calories, Denotes(calText'))
            /\ WellFormedInteger(protText')
            /\ NormalNumber(data.protein_g, Denotes(protText'))

\* the 200 body of the backend holds the normalized values
OutNormalized ==
    \A r \in Requests :
        (Responded(r) /\ Uploaded(r) /\ ~server[r].failed
         /\ HoldsObject(server[r].raw, server[r].members)) =>
            LET fields == JSONparseText(extractJson(trim(server[r].raw)),
                                        server[r].members).fields
                body == server[r].sent[1].body
            IN  /\ server[r].sent[1].status = 200
                /\ body.description.t = "string"
                /\ NormalDescription(fields.description, body.description.s)
                /\ IsInteger(body.calories)
                /\ NormalNumber(fields.calories, body.calories.n)
                /\ IsInteger(body.protein_g)
                /\ NormalNumber(fields.protein_g, body.protein_g.n)

\* C16: the values an estimate puts in the draft, and those the backend
\* puts in its 200 body, are normalized: calories and protein_g are 0 when
\* the field is missing, null or not numeric, and a number or numeric text
\* rounded to the nearest integer otherwise; a missing or empty description
\* is "Food"; normalizing never fails.
C16_Normalized == [][DraftNormalized]_vars /\ []OutNormalized

\* ---------------------------------------------------------------------
\* C17: when an estimate fails (the fetch rejects, the server answers
\* with an error status, or the body is unusable), the form shows an
\* error message, estimating is false again, the fields of the draft, the
\* photo and the list of meals are as they were, nothing is written to
\* the store and no new request is sent; and whenever the form is open
\* and no estimate is running, Cancel, Save and, with a photo, Estimate
\* respond to a tap.
EstimateFailureHandled ==
    \A i \in 1..Len(net), message \in Messages :
        Respond(i, TRUE, message, NoMembers) =>
            /\ estimateError' # Null
            /\ ~estimating'
            /\ desc' = desc /\ calText' = calText /\ protText' = protText
            /\ photoUri' = photoUri
            /\ meals' = meals /\ queue' = queue /\ store' = store
            /\ Len(net') = Len(net) - 1

ButtonsEnabledWhenIdle ==
    (showModal /\ alert = "none" /\ ~estimating) =>
        /\ ENABLED Cancel
        /\ photoUri # Undefined => ENABLED estimateFromPhoto
        /\ ops < MaxOps => ENABLED (\E r \in 0..RandSteps : saveMeal(r))

C17_EstimateFailure ==
    [][EstimateFailureHandled]_vars /\ []ButtonsEnabledWhenIdle

\* an estimate has failed on the open form, whose draft, filled by an
\* earlier estimate, is kept
C17_Witness ==
    /\ showModal
    /\ estimateError \in {ErrorMessage(m) : m \in Messages}
    /\ ~estimating
    /\ desc = <<"e", "g">>
    /\ photoUri # Undefined

\* ---------------------------------------------------------------------
\* C18: the form can always be used by hand: whenever it is open and no
\* alert covers it, Cancel responds to a tap and so does Save, also while
\* an estimate is in flight or never completes.
C18_FormUsable ==
    (showModal /\ alert = "none") =>
        /\ ENABLED Cancel
        /\ ops < MaxOps => ENABLED (\E r \in 0..RandSteps : saveMeal(r))

\* ---------------------------------------------------------------------
\* C19: the answer to an estimate only fills the draft that asked for
\* it: whenever an answer fills the fields, the form is open, it was not
\* closed or reopened since the request was sent, and its photo is still
\* the photo that was sent.
ResponseForThisDraft ==
    \A i \in 1..Len(net), data \in FewMembers :
        Respond(i, FALSE, "", data) =>
            /\ showModal
            /\ ~net[i].stale
            /\ photoUri = net[i].photo

C19_OwnDraftOnly == [][ResponseForThisDraft]_vars

\* the same for the answers that reach an open form
ResponseForThisOpenDraft ==
    \A i \in 1..Len(net), data \in FewMembers :
        (showModal /\ Respond(i, FALSE, "", data)) =>
            /\ ~net[i].stale
            /\ photoUri = net[i].photo

OpenDraftOnly == [][ResponseForThisOpenDraft]_vars

\* ---------------------------------------------------------------------
\* C20: one opening of the form saves at most one Meal: between an
\* openModal and the form closing the list gains at most one Meal,
\* whatever the Save taps and the outcome of the store writes.
C20_OneMealPerOpening == committed <= 1
====
